---- MODULE Spec2Model ----
(***************************************************************************)
(* The overseer contract's collateral handlers                             *)
(* (contracts/overseer/src/collateral.rs): lock_collateral,                *)
(* unlock_collateral, borrow, liquidate_collateral and the borrow-limit    *)
(* calculator.  Every handler is an operator from (storage, fixtures,      *)
(* request) to a HandleResult; the host invokes one handler per request    *)
(* and then dispatches the messages of the response.                       *)
(***************************************************************************)
EXTENDS Integers, Sequences, FiniteSets, TLC

VARIABLES
    loans,      \* storage: canonical borrower address -> stored Loan (partial)
    whitelist,  \* storage: canonical asset address -> WhitelistItem (partial)
    oracle,     \* the oracle contract: <<base, quote>> -> price entry (partial)
    build,      \* the build's integer arithmetic: overflow checks on, or wrapping
    resp,       \* the request being answered and its HandleResult, or Idle
    executed,   \* history: ExecuteLoan amounts dispatched to the market, per sender
    instructed  \* history: per sender and asset, the amounts the custody was
                \* instructed to lock, less those it was instructed to unlock

vars == <<loans, whitelist, oracle, build, resp, executed, instructed>>

----------------------------------------------------------------------------
(* Bounds of the model *)

MaxLen == 2        \* longest collateral list of a request
MaxAmount == 2     \* largest amount of a request (for a list: of its amounts together)
MaxLocked == 2     \* a lock is generated while the ledger holds at most this in
                   \* all, or is within this of the top of the range
MaxExecuted == 2   \* a borrow is generated while the sender's history stays within this

\* cosmwasm Decimal is a fixed-point number over 10^18; the model keeps one
\* fractional digit.
DECIMAL_FRACTIONAL == 10

\* Uint128 holds 0 .. 2^128 - 1; the model keeps 16 bits.
U128_MAX == 65535

\* Uint128's `+`, `+=` and `*` are the primitive operators of u128: on overflow
\* they panic in a build with overflow checks and wrap in a build without.
Builds == {"checked", "wrapping"}

Borrowers == {"alice", "bob"}      \* human addresses of the senders
Assets == {"X", "Y"}               \* human addresses of the collateral tokens
Amounts == 0..MaxAmount

----------------------------------------------------------------------------
(* Addresses, config, fixtures *)

\* deps.api.canonical_address / human_address: a change of representation.
\* Senders and assets are valid addresses, so the conversion does not fail.
canonical_address(human) == <<"canonical", human>>
human_address(raw) == raw[2]
\* CanonicalAddr::to_string, as used for the oracle's quote
to_string(raw) == <<"str", raw[2]>>

config ==
    [ market_contract |-> canonical_address("market"),
      oracle_contract |-> canonical_address("oracle"),
      base_denom      |-> "uusd" ]

read_config == config

Decimal(tenths) == tenths

\* One whitelist / oracle snapshot and one build per run: X is listed (ltv 0.5)
\* and priced (4.0); Y (ltv 1.0, price 1.5) is listed and priced, or not listed,
\* or not priced.  With the ledger these runs reach, no operation on a Uint128
\* leaves its range; the runs that start at the top of the range are
\* SpecOverflow's.
PriceOf(rate) == [rate |-> rate, last_updated_base |-> 0, last_updated_quote |-> 0]
WlX == canonical_address("X") :> [ltv |-> Decimal(5)]
WlY == canonical_address("Y") :> [ltv |-> Decimal(10)]
OrX == <<"uusd", to_string(canonical_address("X"))>> :> PriceOf(Decimal(40))
OrY == <<"uusd", to_string(canonical_address("Y"))>> :> PriceOf(Decimal(15))
Fixtures ==
    { [whitelist |-> WlX @@ WlY, oracle |-> OrX @@ OrY, build |-> "checked"],
      [whitelist |-> WlX,        oracle |-> OrX @@ OrY, build |-> "wrapping"],
      [whitelist |-> WlX @@ WlY, oracle |-> OrX,        build |-> "checked"] }

----------------------------------------------------------------------------
(* Uint128 arithmetic *)

\* the value of an operation that panicked
Panicked == -1

\* u128 `+`: the sum when it fits; else a panic, or the sum modulo 2^w
Uint128_add(a, b) ==
    IF a = Panicked \/ b = Panicked THEN Panicked
    ELSE IF a + b <= U128_MAX THEN a + b
    ELSE IF build = "checked" THEN Panicked
    ELSE (a + b) % (U128_MAX + 1)

\* Uint128 * Decimal: 0 when either factor is 0, else multiply_ratio(d, 10^k):
\* the u128 product amount * d (a panic, or wrapped, when it does not fit)
\* divided by 10^k, truncated
Uint128_mul_Decimal(amount, d) ==
    IF amount = Panicked THEN Panicked
    ELSE IF amount = 0 \/ d = 0 THEN 0
    ELSE IF amount * d <= U128_MAX THEN (amount * d) \div DECIMAL_FRACTIONAL
    ELSE IF build = "checked" THEN Panicked
    ELSE ((amount * d) % (U128_MAX + 1)) \div DECIMAL_FRACTIONAL

----------------------------------------------------------------------------
(* state.rs: the Loan record and its storage *)

DefaultLoan == [collaterals |-> <<>>, borrow_amount |-> 0]

\* read_loan: the stored record, or the all-zero default
read_loan(storage, borrower_raw) ==
    IF borrower_raw \in DOMAIN storage THEN storage[borrower_raw] ELSE DefaultLoan

\* store_loan: overwrite the record of this key, and of no other
store_loan(storage, borrower_raw, loan) ==
    [k \in DOMAIN storage \cup {borrower_raw} |->
        IF k = borrower_raw THEN loan ELSE storage[k]]

HasEntry(collaterals, token) == \E i \in 1..Len(collaterals) : collaterals[i][1] = token

\* the locked amount of a token in a basket (0 when the basket has no entry)
LockedOf(collaterals, token) ==
    IF HasEntry(collaterals, token)
    THEN LET i == CHOOSE j \in 1..Len(collaterals) : collaterals[j][1] = token
         IN  collaterals[i][2]
    ELSE 0

AddOne(collaterals, delta) ==
    IF HasEntry(collaterals, delta[1])
    THEN [i \in 1..Len(collaterals) |->
            IF collaterals[i][1] = delta[1]
            THEN <<collaterals[i][1], Uint128_add(collaterals[i][2], delta[2])>>
            ELSE collaterals[i]]
    ELSE Append(collaterals, delta)

\* Loan::add_collateral: each delta increases the matching entry or inserts one;
\* it returns no Result
RECURSIVE add_collateral(_, _)
add_collateral(collaterals, deltas) ==
    IF deltas = <<>> THEN collaterals
    ELSE add_collateral(AddOne(collaterals, Head(deltas)), Tail(deltas))

SubOne(collaterals, delta) ==
    [i \in 1..Len(collaterals) |->
        IF collaterals[i][1] = delta[1]
        THEN <<collaterals[i][1], collaterals[i][2] - delta[2]>>
        ELSE collaterals[i]]

RECURSIVE SubAll(_, _)
SubAll(collaterals, deltas) ==
    IF deltas = <<>> THEN [ok |-> TRUE, collaterals |-> collaterals]
    ELSE IF Head(deltas)[2] > LockedOf(collaterals, Head(deltas)[1])
         THEN [ok |-> FALSE, collaterals |-> collaterals]
         ELSE SubAll(SubOne(collaterals, Head(deltas)), Tail(deltas))

\* Loan::sub_collateral: each delta decreases the matching entry; Underflow when
\* a decrease exceeds what is locked at that point, the basket then left as it was
sub_collateral(collaterals, deltas) ==
    LET r == SubAll(collaterals, deltas)
    IN  IF r.ok THEN r ELSE [ok |-> FALSE, collaterals |-> collaterals]

----------------------------------------------------------------------------
(* The borrow-limit calculator *)

\* load_oracle_price: the oracle's answer for <<base, quote>>, or an error
load_oracle_price(or, base, quote) ==
    IF <<base, quote>> \in DOMAIN or
    THEN [ok |-> TRUE, err |-> "", price |-> or[<<base, quote>>]]
    ELSE [ok |-> FALSE, err |-> "PriceUnavailable", price |-> PriceOf(0)]

\* read_whitelist_item: the stored item, or an error
read_whitelist_item(wl, token) ==
    IF token \in DOMAIN wl
    THEN [ok |-> TRUE, err |-> "", item |-> wl[token]]
    ELSE [ok |-> FALSE, err |-> "UnknownCollateral", item |-> [ltv |-> 0]]

\* faulty variant: the amount is multiplied by the price first, by the ltv second
RECURSIVE LimitLoop_PriceFirst(_, _, _, _, _)
LimitLoop_PriceFirst(wl, or, collaterals, i, borrow_limit) ==
    IF i > Len(collaterals) THEN [ok |-> TRUE, err |-> "", val |-> borrow_limit]
    ELSE LET collateral_token  == collaterals[i][1]
             collateral_amount == collaterals[i][2]
             price == load_oracle_price(or, read_config.base_denom,
                                        to_string(collateral_token))
             item  == read_whitelist_item(wl, collateral_token)
             sum   == Uint128_add(borrow_limit,
                          Uint128_mul_Decimal(
                              Uint128_mul_Decimal(collateral_amount, price.price.rate),
                              item.item.ltv))
         IN  IF ~price.ok THEN [ok |-> FALSE, err |-> price.err, val |-> 0]
             ELSE IF ~item.ok THEN [ok |-> FALSE, err |-> item.err, val |-> 0]
             ELSE IF sum = Panicked THEN [ok |-> FALSE, err |-> "Overflow", val |-> 0]
             ELSE LimitLoop_PriceFirst(wl, or, collaterals, i + 1, sum)

\* faulty variant: a price whose base was updated before its quote is rejected
RECURSIVE LimitLoop_RejectStale(_, _, _, _, _)
LimitLoop_RejectStale(wl, or, collaterals, i, borrow_limit) ==
    IF i > Len(collaterals) THEN [ok |-> TRUE, err |-> "", val |-> borrow_limit]
    ELSE LET collateral_token  == collaterals[i][1]
             collateral_amount == collaterals[i][2]
             price == load_oracle_price(or, read_config.base_denom,
                                        to_string(collateral_token))
             item  == read_whitelist_item(wl, collateral_token)
             sum   == Uint128_add(borrow_limit,
                          Uint128_mul_Decimal(
                              Uint128_mul_Decimal(collateral_amount, item.item.ltv),
                              price.price.rate))
         IN  IF ~price.ok THEN [ok |-> FALSE, err |-> price.err, val |-> 0]
             ELSE IF price.price.last_updated_base < price.price.last_updated_quote
                  THEN [ok |-> FALSE, err |-> "PriceUnavailable", val |-> 0]
             ELSE IF ~item.ok THEN [ok |-> FALSE, err |-> item.err, val |-> 0]
             ELSE IF sum = Panicked THEN [ok |-> FALSE, err |-> "Overflow", val |-> 0]
             ELSE LimitLoop_RejectStale(wl, or, collaterals, i + 1, sum)

\* for (collateral_token, collateral_amount) in collaterals: the price is loaded,
\* then the whitelist item is read, then borrow_limit += amount * ltv * rate
RECURSIVE LimitLoop(_, _, _, _, _)
LimitLoop(wl, or, collaterals, i, borrow_limit) ==
    IF i > Len(collaterals) THEN [ok |-> TRUE, err |-> "", val |-> borrow_limit]
    ELSE LET collateral_token  == collaterals[i][1]
             collateral_amount == collaterals[i][2]
             price == load_oracle_price(or, read_config.base_denom,
                                        to_string(collateral_token))
             item  == read_whitelist_item(wl, collateral_token)
             sum   == Uint128_add(borrow_limit,
                          Uint128_mul_Decimal(
                              Uint128_mul_Decimal(collateral_amount, item.item.ltv),
                              price.price.rate))
         IN  IF ~price.ok THEN [ok |-> FALSE, err |-> price.err, val |-> 0]
             ELSE IF ~item.ok THEN [ok |-> FALSE, err |-> item.err, val |-> 0]
             ELSE IF sum = Panicked THEN [ok |-> FALSE, err |-> "Overflow", val |-> 0]
             ELSE LimitLoop(wl, or, collaterals, i + 1, sum)

compute_borrow_limit(wl, or, collaterals) == LimitLoop(wl, or, collaterals, 1, 0)

----------------------------------------------------------------------------
(* The handlers.  A HandleResult is the result kind ("Ok" or the error), the
   storage the request leaves behind, and the response's messages and log.
   A panic aborts the request: it is the error "Overflow", nothing stored. *)

HasPanicked(collaterals) ==
    \E i \in 1..Len(collaterals) : collaterals[i][2] = Panicked

Err(storage, kind) ==
    [result |-> kind, loans |-> storage, messages |-> <<>>, log |-> <<>>]

Ok(storage, messages, log) ==
    [result |-> "Ok", loans |-> storage, messages |-> messages, log |-> log]

\* collaterals.iter().map(|c| (canonical_address(&c.0), c.1))
collaterals_raw(collaterals) ==
    [i \in 1..Len(collaterals) |->
        <<canonical_address(collaterals[i][1]), collaterals[i][2]>>]

\* faulty variant: no message for an element whose amount is 0
custody_messages_SkipZero(type, sender, collaterals) ==
    LET moved == SelectSeq(collaterals, LAMBDA c : c[2] > 0)
    IN  [i \in 1..Len(moved) |->
            [contract_addr |-> moved[i][1],
             msg |-> [type |-> type, borrower |-> sender, amount |-> moved[i][2]]]]

\* faulty variant: only the first element of the request gets a message
custody_messages_FirstOnly(type, sender, collaterals) ==
    [i \in 1..(IF collaterals = <<>> THEN 0 ELSE 1) |->
        [contract_addr |-> collaterals[i][1],
         msg |-> [type |-> type, borrower |-> sender, amount |-> collaterals[i][2]]]]

\* one WasmMsg::Execute to the custody per element of the request, in its order
custody_messages(type, sender, collaterals) ==
    [i \in 1..Len(collaterals) |->
        [contract_addr |-> collaterals[i][1],
         msg |-> [type |-> type, borrower |-> sender, amount |-> collaterals[i][2]]]]

\* format!("{}{}", c.1, c.0) per element, joined
collateral_logs(collaterals) ==
    [i \in 1..Len(collaterals) |-> <<collaterals[i][2], collaterals[i][1]>>]

\* faulty variant: the lock is put behind the borrow-limit check of unlock and borrow
handle_lock_collateral_Gated(storage, wl, or, sender, collaterals) ==
    LET borrower_raw == canonical_address(sender)
        loan         == read_loan(storage, borrower_raw)
        locked       == [loan EXCEPT !.collaterals =
                            add_collateral(loan.collaterals, collaterals_raw(collaterals))]
        borrow_limit == compute_borrow_limit(wl, or, locked.collaterals)
    IN  IF HasPanicked(locked.collaterals) THEN Err(storage, "Overflow")
        ELSE IF ~borrow_limit.ok THEN Err(storage, borrow_limit.err)
        ELSE IF borrow_limit.val < locked.borrow_amount
             THEN Err(storage, "InsufficientCollateral")
        ELSE Ok(store_loan(storage, borrower_raw, locked),
                custody_messages("LockCollateral", sender, collaterals),
                << <<"action", "lock_collateral">>, <<"borrower", sender>>,
                   <<"collaterals", collateral_logs(collaterals)>> >>)

\* faulty variant: the deposits replace the stored basket
handle_lock_collateral_Replace(storage, wl, or, sender, collaterals) ==
    LET borrower_raw == canonical_address(sender)
        loan         == read_loan(storage, borrower_raw)
        locked       == [loan EXCEPT !.collaterals =
                            add_collateral(<<>>, collaterals_raw(collaterals))]
    IN  IF HasPanicked(locked.collaterals) THEN Err(storage, "Overflow")
        ELSE Ok(store_loan(storage, borrower_raw, locked),
                custody_messages("LockCollateral", sender, collaterals),
                << <<"action", "lock_collateral">>, <<"borrower", sender>>,
                   <<"collaterals", collateral_logs(collaterals)>> >>)

handle_lock_collateral(storage, wl, or, sender, collaterals) ==
    LET borrower_raw == canonical_address(sender)
        loan         == read_loan(storage, borrower_raw)
        locked       == [loan EXCEPT !.collaterals =
                            add_collateral(loan.collaterals, collaterals_raw(collaterals))]
    IN  IF HasPanicked(locked.collaterals) THEN Err(storage, "Overflow")
        ELSE Ok(store_loan(storage, borrower_raw, locked),
                custody_messages("LockCollateral", sender, collaterals),
                << <<"action", "lock_collateral">>, <<"borrower", sender>>,
                   <<"collaterals", collateral_logs(collaterals)>> >>)

\* faulty variant: the gate rejects a limit equal to the debt: <= for <
handle_unlock_collateral_StrictGate(storage, wl, or, sender, collaterals) ==
    LET borrower_raw == canonical_address(sender)
        loan         == read_loan(storage, borrower_raw)
        sub          == sub_collateral(loan.collaterals, collaterals_raw(collaterals))
        unlocked     == [loan EXCEPT !.collaterals = sub.collaterals]
        borrow_limit == compute_borrow_limit(wl, or, unlocked.collaterals)
    IN  IF ~sub.ok THEN Err(storage, "Underflow")
        ELSE IF ~borrow_limit.ok THEN Err(storage, borrow_limit.err)
        ELSE IF borrow_limit.val <= unlocked.borrow_amount
             THEN Err(storage, "InsufficientCollateral")
        ELSE Ok(store_loan(storage, borrower_raw, unlocked),
                custody_messages("UnlockCollateral", sender, collaterals),
                << <<"action", "unlock_collateral">>, <<"borrower", sender>>,
                   <<"collaterals", collateral_logs(collaterals)>> >>)

\* faulty variant: the result of sub_collateral is dropped instead of propagated with `?`
handle_unlock_collateral_IgnoreUnderflow(storage, wl, or, sender, collaterals) ==
    LET borrower_raw == canonical_address(sender)
        loan         == read_loan(storage, borrower_raw)
        sub          == sub_collateral(loan.collaterals, collaterals_raw(collaterals))
        unlocked     == [loan EXCEPT !.collaterals = sub.collaterals]
        borrow_limit == compute_borrow_limit(wl, or, unlocked.collaterals)
    IN  IF ~borrow_limit.ok THEN Err(storage, borrow_limit.err)
        ELSE IF borrow_limit.val < unlocked.borrow_amount
             THEN Err(storage, "InsufficientCollateral")
        ELSE Ok(store_loan(storage, borrower_raw, unlocked),
                custody_messages("UnlockCollateral", sender, collaterals),
                << <<"action", "unlock_collateral">>, <<"borrower", sender>>,
                   <<"collaterals", collateral_logs(collaterals)>> >>)

handle_unlock_collateral(storage, wl, or, sender, collaterals) ==
    LET borrower_raw == canonical_address(sender)
        loan         == read_loan(storage, borrower_raw)
        sub          == sub_collateral(loan.collaterals, collaterals_raw(collaterals))
        unlocked     == [loan EXCEPT !.collaterals = sub.collaterals]
        borrow_limit == compute_borrow_limit(wl, or, unlocked.collaterals)
    IN  IF ~sub.ok THEN Err(storage, "Underflow")
        ELSE IF ~borrow_limit.ok THEN Err(storage, borrow_limit.err)
        ELSE IF borrow_limit.val < unlocked.borrow_amount
             THEN Err(storage, "InsufficientCollateral")
        ELSE Ok(store_loan(storage, borrower_raw, unlocked),
                custody_messages("UnlockCollateral", sender, collaterals),
                << <<"action", "unlock_collateral">>, <<"borrower", sender>>,
                   <<"collaterals", collateral_logs(collaterals)>> >>)

\* the baskets of every stored loan, one after the other
RECURSIVE AllCollaterals(_)
AllCollaterals(storage) ==
    IF DOMAIN storage = {} THEN <<>>
    ELSE LET k == CHOOSE x \in DOMAIN storage : TRUE
         IN  storage[k].collaterals
             \o AllCollaterals([x \in DOMAIN storage \ {k} |-> storage[x]])

\* faulty variant: the working copy is stored before the limit is checked
handle_borrow_StoreFirst(storage, wl, or, sender, amount) ==
    LET borrower_raw == canonical_address(sender)
        loan         == read_loan(storage, borrower_raw)
        borrowed     == [loan EXCEPT !.borrow_amount =
                            Uint128_add(loan.borrow_amount, amount)]
        stored       == store_loan(storage, borrower_raw, borrowed)
        borrow_limit == compute_borrow_limit(wl, or, borrowed.collaterals)
    IN  IF borrowed.borrow_amount = Panicked THEN Err(storage, "Overflow")
        ELSE IF ~borrow_limit.ok THEN Err(stored, borrow_limit.err)
        ELSE IF borrow_limit.val < borrowed.borrow_amount
             THEN Err(stored, "ExceedsLimit")
        ELSE Ok(stored,
                << [contract_addr |-> human_address(read_config.market_contract),
                    msg |-> [type |-> "ExecuteLoan", borrower |-> sender,
                             amount |-> amount]] >>,
                << <<"action", "borrow">>, <<"borrower", sender>>,
                   <<"amount", amount>> >>)

\* faulty variant: the limit is computed over the collateral of every borrower
handle_borrow_PooledLimit(storage, wl, or, sender, amount) ==
    LET borrower_raw == canonical_address(sender)
        loan         == read_loan(storage, borrower_raw)
        borrowed     == [loan EXCEPT !.borrow_amount =
                            Uint128_add(loan.borrow_amount, amount)]
        borrow_limit == compute_borrow_limit(wl, or, AllCollaterals(storage))
    IN  IF borrowed.borrow_amount = Panicked THEN Err(storage, "Overflow")
        ELSE IF ~borrow_limit.ok THEN Err(storage, borrow_limit.err)
        ELSE IF borrow_limit.val < borrowed.borrow_amount
             THEN Err(storage, "ExceedsLimit")
        ELSE Ok(storage,
                << [contract_addr |-> human_address(read_config.market_contract),
                    msg |-> [type |-> "ExecuteLoan", borrower |-> sender,
                             amount |-> amount]] >>,
                << <<"action", "borrow">>, <<"borrower", sender>>,
                   <<"amount", amount>> >>)

\* the working copy `loan` is checked and dropped: no store_loan follows the check
handle_borrow(storage, wl, or, sender, amount) ==
    LET borrower_raw == canonical_address(sender)
        loan         == read_loan(storage, borrower_raw)
        borrowed     == [loan EXCEPT !.borrow_amount =
                            Uint128_add(loan.borrow_amount, amount)]
        borrow_limit == compute_borrow_limit(wl, or, borrowed.collaterals)
    IN  IF borrowed.borrow_amount = Panicked THEN Err(storage, "Overflow")
        ELSE IF ~borrow_limit.ok THEN Err(storage, borrow_limit.err)
        ELSE IF borrow_limit.val < borrowed.borrow_amount
             THEN Err(storage, "ExceedsLimit")
        ELSE Ok(storage,
                << [contract_addr |-> human_address(read_config.market_contract),
                    msg |-> [type |-> "ExecuteLoan", borrower |-> sender,
                             amount |-> amount]] >>,
                << <<"action", "borrow">>, <<"borrower", sender>>,
                   <<"amount", amount>> >>)

\* faulty variant: the borrower's collateral is seized
handle_liquidiate_collateral_Seize(storage, wl, or, sender, borrower) ==
    LET borrower_raw == canonical_address(borrower)
        loan         == read_loan(storage, borrower_raw)
    IN  Ok(store_loan(storage, borrower_raw, [loan EXCEPT !.collaterals = <<>>]),
           <<>>,
           << <<"action", "liquidate_collateral">>, <<"borrower", borrower>> >>)

\* HandleResponse::default()
handle_liquidiate_collateral(storage, wl, or, sender, borrower) ==
    Ok(storage, <<>>, <<>>)

----------------------------------------------------------------------------
(* The host: one request at a time is handled to completion, then its
   response is taken and its messages are dispatched. *)

Idle == [kind |-> "idle"]

Response(kind, sender, collaterals, amount, borrower, out) ==
    [kind |-> kind, sender |-> sender, collaterals |-> collaterals,
     amount |-> amount, borrower |-> borrower, before |-> loans,
     result |-> out.result, messages |-> out.messages, log |-> out.log]

RECURSIVE SumAmounts(_)
SumAmounts(collaterals) ==
    IF collaterals = <<>> THEN 0 ELSE Head(collaterals)[2] + SumAmounts(Tail(collaterals))

Entries == Assets \X Amounts
CollateralLists ==
    { c \in UNION { [1..n -> Entries] : n \in 0..MaxLen } : SumAmounts(c) <= MaxAmount }

\* ExecuteLoan amounts among the messages of a response
RECURSIVE LoanTotal(_)
LoanTotal(messages) ==
    IF messages = <<>> THEN 0
    ELSE (IF Head(messages).msg.type = "ExecuteLoan" THEN Head(messages).msg.amount ELSE 0)
         + LoanTotal(Tail(messages))

\* all the amounts a storage holds, together
RECURSIVE TotalLocked(_)
TotalLocked(storage) ==
    IF DOMAIN storage = {} THEN 0
    ELSE LET k == CHOOSE x \in DOMAIN storage : TRUE
         IN  SumAmounts(storage[k].collaterals)
             + TotalLocked([x \in DOMAIN storage \ {k} |-> storage[x]])

\* what the messages instruct the custody of an asset to lock for a borrower,
\* less what they instruct it to unlock
RECURSIVE NetInstructed(_, _, _)
NetInstructed(messages, borrower, asset) ==
    IF messages = <<>> THEN 0
    ELSE LET m == Head(messages)
         IN  (IF m.contract_addr = asset /\ m.msg.borrower = borrower
              THEN (IF m.msg.type = "LockCollateral" THEN m.msg.amount
                    ELSE IF m.msg.type = "UnlockCollateral" THEN 0 - m.msg.amount
                    ELSE 0)
              ELSE 0)
             + NetInstructed(Tail(messages), borrower, asset)

Init ==
    /\ loans = <<>>
    /\ \E f \in Fixtures :
        whitelist = f.whitelist /\ oracle = f.oracle /\ build = f.build
    /\ resp = Idle
    /\ executed = [b \in Borrowers |-> 0]
    /\ instructed = [k \in Borrowers \X Assets |-> 0]

LockCollateral ==
    /\ resp = Idle
    /\ \E sender \in Borrowers, collaterals \in CollateralLists :
        \E out \in {handle_lock_collateral(loans, whitelist, oracle, sender, collaterals)} :
            /\ \/ TotalLocked(out.loans) <= MaxLocked
               \/ TotalLocked(loans) >= U128_MAX - MaxLocked
            /\ loans' = out.loans
            /\ resp' = Response("lock", sender, collaterals, 0, "", out)
            /\ UNCHANGED <<whitelist, oracle, build, executed, instructed>>

UnlockCollateral ==
    /\ resp = Idle
    /\ \E sender \in Borrowers, collaterals \in CollateralLists :
        \E out \in {handle_unlock_collateral(loans, whitelist, oracle, sender, collaterals)} :
            /\ loans' = out.loans
            /\ resp' = Response("unlock", sender, collaterals, 0, "", out)
            /\ UNCHANGED <<whitelist, oracle, build, executed, instructed>>

Borrow ==
    /\ resp = Idle
    /\ \E sender \in Borrowers, amount \in Amounts :
        \E out \in {handle_borrow(loans, whitelist, oracle, sender, amount)} :
            /\ executed[sender] + amount <= MaxExecuted
            /\ loans' = out.loans
            /\ resp' = Response("borrow", sender, <<>>, amount, "", out)
            /\ UNCHANGED <<whitelist, oracle, build, executed, instructed>>

LiquidateCollateral ==
    /\ resp = Idle
    /\ \E sender \in Borrowers, borrower \in Borrowers :
        \E out \in {handle_liquidiate_collateral(loans, whitelist, oracle, sender, borrower)} :
            /\ loans' = out.loans
            /\ resp' = Response("liquidate", sender, <<>>, 0, borrower, out)
            /\ UNCHANGED <<whitelist, oracle, build, executed, instructed>>

\* the host takes the response and dispatches its messages
Dispatch ==
    /\ resp # Idle
    /\ resp' = Idle
    /\ UNCHANGED <<loans, whitelist, oracle, build, executed, instructed>>

\* the same, with the dispatched ExecuteLoan amounts added to the history
DispatchRecorded ==
    /\ resp # Idle
    /\ executed' = [executed EXCEPT ![resp.sender] = @ + LoanTotal(resp.messages)]
    /\ resp' = Idle
    /\ UNCHANGED <<loans, whitelist, oracle, build, instructed>>

\* the same, with the dispatched custody instructions added to the history
DispatchInstructed ==
    /\ resp # Idle
    /\ instructed' = [k \in DOMAIN instructed |->
                        instructed[k] + NetInstructed(resp.messages, k[1], k[2])]
    /\ resp' = Idle
    /\ UNCHANGED <<loans, whitelist, oracle, build, executed>>

Next ==
    \/ LockCollateral
    \/ UnlockCollateral
    \/ Borrow
    \/ LiquidateCollateral
    \/ Dispatch

Spec == Init /\ [][Next]_vars

NextRecorded ==
    \/ LockCollateral
    \/ UnlockCollateral
    \/ Borrow
    \/ LiquidateCollateral
    \/ DispatchRecorded

\* Spec with the history of dispatched loans kept
SpecRecorded == Init /\ [][NextRecorded]_vars

NextInstructed ==
    \/ LockCollateral
    \/ UnlockCollateral
    \/ Borrow
    \/ LiquidateCollateral
    \/ DispatchInstructed

\* Spec with the history of dispatched custody instructions kept
SpecInstructed == Init /\ [][NextInstructed]_vars

----------------------------------------------------------------------------
(* What the claims read: the request being answered, the sender's record
   before and after it, and the limit of a basket under the run's snapshot. *)

Raw(human) == canonical_address(human)
LoanBefore == read_loan(resp.before, Raw(resp.sender))
LoanAfter == read_loan(loans, Raw(resp.sender))
Limit(collaterals) == compute_borrow_limit(whitelist, oracle, collaterals)

\* the amounts a request names for an asset, together
RECURSIVE AmountFor(_, _)
AmountFor(collaterals, asset) ==
    IF collaterals = <<>> THEN 0
    ELSE (IF Head(collaterals)[1] = asset THEN Head(collaterals)[2] ELSE 0)
         + AmountFor(Tail(collaterals), asset)

ExecuteLoanMsg(sender, amount) ==
    [contract_addr |-> "market",
     msg |-> [type |-> "ExecuteLoan", borrower |-> sender, amount |-> amount]]

----------------------------------------------------------------------------
\* C1: solvency. In every reachable state every borrower's stored
\* borrow_amount is at most compute_borrow_limit of the stored basket; where
\* that limit cannot be computed (an asset of the basket has no price or no
\* whitelist entry) the stored borrow_amount is 0.
C1_Solvency ==
    \A b \in Borrowers :
        LET loan == read_loan(loans, Raw(b))
            lim  == Limit(loan.collaterals)
        IN  IF lim.ok THEN loan.borrow_amount <= lim.val ELSE loan.borrow_amount = 0

\* a borrow of a positive amount has just succeeded against a basket of positive limit
C1_Witness ==
    /\ resp.kind = "borrow" /\ resp.result = "Ok" /\ resp.amount > 0
    /\ Limit(LoanAfter.collaterals).ok
    /\ Limit(LoanAfter.collaterals).val >= resp.amount

\* C2: after a successful borrow(borrower, amount) the stored borrow_amount is
\* its value before the request plus amount, and the response carries exactly
\* one ExecuteLoan{borrower, amount} addressed to the market contract.
C2_BorrowPersists ==
    (resp.kind = "borrow" /\ resp.result = "Ok") =>
        /\ LoanAfter.borrow_amount = LoanBefore.borrow_amount + resp.amount
        /\ resp.messages = << ExecuteLoanMsg(resp.sender, resp.amount) >>

\* C3: debt accumulates. Once the loans executed for a borrower total the
\* borrow limit of the basket, a further borrow of a positive amount is
\* rejected with ExceedsLimit and nothing stored changes.
C3_DebtAccumulates ==
    ( /\ resp.kind = "borrow" /\ resp.amount > 0
      /\ Limit(LoanBefore.collaterals).ok
      /\ executed[resp.sender] >= Limit(LoanBefore.collaterals).val ) =>
        /\ resp.result = "ExceedsLimit"
        /\ loans = resp.before

\* the request withdraws all that the basket holds, and the basket holds something
WithdrawsAll(basket, collaterals) ==
    /\ SumAmounts(basket) > 0
    /\ \A a \in Assets : AmountFor(collaterals, a) = LockedOf(basket, Raw(a))

\* C4: after a borrower has borrowed a positive amount against a basket whose
\* limit computes, an unlock_collateral that withdraws the entire basket is
\* rejected with InsufficientCollateral and the stored loan is unchanged.
C4_UnlockAllRejected ==
    ( /\ resp.kind = "unlock"
      /\ executed[resp.sender] > 0
      /\ Limit(LoanBefore.collaterals).ok
      /\ WithdrawsAll(LoanBefore.collaterals, resp.collaterals) ) =>
        /\ resp.result = "InsufficientCollateral"
        /\ loans = resp.before

\* the outcome of an unlock request whose subtraction succeeds
UnlockAccepted(reduced) ==
    /\ resp.result = "Ok"
    /\ LoanAfter = [LoanBefore EXCEPT !.collaterals = reduced]

\* C5 as stated: after the subtraction, the request is accepted (loan stored
\* with the reduced basket) iff compute_borrow_limit of the reduced basket is
\* >= the stored borrow_amount; otherwise it is rejected with
\* InsufficientCollateral.
C5_Original ==
    resp.kind = "unlock" =>
        LET sub == sub_collateral(LoanBefore.collaterals, collaterals_raw(resp.collaterals))
            lim == Limit(sub.collaterals)
            enough == lim.ok /\ lim.val >= LoanBefore.borrow_amount
        IN  sub.ok =>
                /\ UnlockAccepted(sub.collaterals) <=> enough
                /\ ~enough => resp.result = "InsufficientCollateral"

\* C5 amended: after the subtraction, when compute_borrow_limit of the reduced
\* basket fails the request is rejected with that error; otherwise it is
\* accepted (loan stored with the reduced basket) iff the limit of the reduced
\* basket is >= the stored borrow_amount, and else rejected with
\* InsufficientCollateral. A rejected request stores nothing.
C5_UnlockDecidesOnReduced ==
    resp.kind = "unlock" =>
        LET sub == sub_collateral(LoanBefore.collaterals, collaterals_raw(resp.collaterals))
            lim == Limit(sub.collaterals)
            enough == lim.ok /\ lim.val >= LoanBefore.borrow_amount
        IN  sub.ok =>
                /\ UnlockAccepted(sub.collaterals) <=> enough
                /\ ~lim.ok => resp.result = lim.err
                /\ (lim.ok /\ ~enough) => resp.result = "InsufficientCollateral"
                /\ resp.result # "Ok" => loans = resp.before

\* an unlock of a positive amount has been accepted and has left collateral behind
C5_Witness ==
    /\ resp.kind = "unlock" /\ resp.result = "Ok"
    /\ SumAmounts(resp.collaterals) > 0
    /\ SumAmounts(LoanAfter.collaterals) > 0
    /\ SumAmounts(LoanAfter.collaterals) < SumAmounts(LoanBefore.collaterals)

\* C6: a request rejected with InsufficientCollateral or with ExceedsLimit
\* returns no message and leaves every stored loan record as it was.
C6_RejectionNoSideEffects ==
    ( /\ resp.kind \in {"unlock", "borrow"}
      /\ resp.result \in {"InsufficientCollateral", "ExceedsLimit"} ) =>
        /\ resp.messages = <<>>
        /\ loans = resp.before

\* a borrow above the limit of a stored, non-empty basket has just been rejected
C6_Witness ==
    /\ resp.kind = "borrow" /\ resp.result = "ExceedsLimit"
    /\ SumAmounts(LoanBefore.collaterals) > 0
    /\ Limit(LoanBefore.collaterals).val > 0

\* some withdrawal of the request exceeds what the sender has locked of its asset
ExceedsLocked(basket, collaterals) ==
    \E i \in 1..Len(collaterals) :
        collaterals[i][2] > LockedOf(basket, Raw(collaterals[i][1]))

\* C7: an unlock_collateral in which a withdrawal exceeds the sender's locked
\* amount of that asset (an asset absent from the basket included) fails with
\* Underflow, stores nothing for any asset of the request, and returns no message.
C7_UnderflowGuard ==
    ( /\ resp.kind = "unlock"
      /\ ExceedsLocked(LoanBefore.collaterals, resp.collaterals) ) =>
        /\ resp.result = "Underflow"
        /\ loans = resp.before
        /\ resp.messages = <<>>

\* an unlock was rejected whose first withdrawal was covered and positive and
\* whose second was not
C7_Witness ==
    /\ resp.kind = "unlock" /\ resp.result = "Underflow"
    /\ Len(resp.collaterals) = 2
    /\ resp.collaterals[1][2] > 0
    /\ resp.collaterals[1][2] <= LockedOf(LoanBefore.collaterals, Raw(resp.collaterals[1][1]))
    /\ resp.collaterals[2][2] > LockedOf(LoanBefore.collaterals, Raw(resp.collaterals[2][1]))

\* C8: lock monotonicity. Every lock_collateral succeeds, whatever the debt,
\* the whitelist and the oracle; after it the stored amount of every asset is
\* its amount before plus what the request deposits of it (nothing, for an
\* asset the request does not name), and borrow_amount is unchanged.
C8_LockMonotone ==
    resp.kind = "lock" =>
        /\ resp.result = "Ok"
        /\ \A a \in Assets :
              LockedOf(LoanAfter.collaterals, Raw(a))
                = LockedOf(LoanBefore.collaterals, Raw(a)) + AmountFor(resp.collaterals, a)
        /\ \A a \in Assets :
              AmountFor(resp.collaterals, a) = 0 =>
                  LockedOf(LoanAfter.collaterals, Raw(a)) = LockedOf(LoanBefore.collaterals, Raw(a))
        /\ LoanAfter.borrow_amount = LoanBefore.borrow_amount

\* a lock has added to an amount already locked, of an asset whose limit does
\* not compute, in a request that also names a zero deposit
C8_Witness ==
    /\ resp.kind = "lock" /\ resp.result = "Ok"
    /\ ~Limit(LoanAfter.collaterals).ok
    /\ \E i, j \in 1..Len(resp.collaterals) :
          /\ resp.collaterals[i][2] > 0
          /\ LockedOf(LoanBefore.collaterals, Raw(resp.collaterals[i][1])) > 0
          /\ resp.collaterals[j][2] = 0

RequestType == IF resp.kind = "lock" THEN "LockCollateral" ELSE "UnlockCollateral"
Targeted == { resp.collaterals[i][1] : i \in 1..Len(resp.collaterals) }

\* C9 as stated: a successful lock (unlock) request, one naming the same asset
\* more than once included, returns exactly one LockCollateral
\* (UnlockCollateral) message per asset of the request, addressed to that
\* asset, with the sender as borrower and the amount moved for that asset.
C9_OnePerAsset ==
    (resp.kind \in {"lock", "unlock"} /\ resp.result = "Ok") =>
        /\ Len(resp.messages) = Cardinality(Targeted)
        /\ \A a \in Targeted :
              \E i \in 1..Len(resp.messages) :
                  resp.messages[i] =
                      [contract_addr |-> a,
                       msg |-> [type |-> RequestType, borrower |-> resp.sender,
                                amount |-> AmountFor(resp.collaterals, a)]]

\* the amounts of the messages addressed to an asset, together
RECURSIVE MessageTotal(_, _)
MessageTotal(messages, asset) ==
    IF messages = <<>> THEN 0
    ELSE (IF Head(messages).contract_addr = asset THEN Head(messages).msg.amount ELSE 0)
         + MessageTotal(Tail(messages), asset)

\* C9 amended: a successful lock (unlock) request returns exactly one
\* LockCollateral (UnlockCollateral) message per element of the request, in the
\* request's order, addressed to that element's asset, with the sender as
\* borrower and that element's amount; an asset named k times gets k messages,
\* whose amounts together are the amount moved for that asset.
C9_OnePerEntry ==
    (resp.kind \in {"lock", "unlock"} /\ resp.result = "Ok") =>
        /\ Len(resp.messages) = Len(resp.collaterals)
        /\ \A i \in 1..Len(resp.collaterals) :
              resp.messages[i] =
                  [contract_addr |-> resp.collaterals[i][1],
                   msg |-> [type |-> RequestType, borrower |-> resp.sender,
                            amount |-> resp.collaterals[i][2]]]
        /\ \A a \in Assets :
              MessageTotal(resp.messages, a) =
                  IF resp.kind = "lock"
                  THEN LockedOf(LoanAfter.collaterals, Raw(a)) - LockedOf(LoanBefore.collaterals, Raw(a))
                  ELSE LockedOf(LoanBefore.collaterals, Raw(a)) - LockedOf(LoanAfter.collaterals, Raw(a))

\* a request naming one asset twice, one of the times with amount 0, has succeeded
C9_Witness ==
    /\ resp.kind \in {"lock", "unlock"} /\ resp.result = "Ok"
    /\ Len(resp.collaterals) = 2
    /\ resp.collaterals[1][1] = resp.collaterals[2][1]
    /\ resp.collaterals[1][2] = 0
    /\ resp.collaterals[2][2] > 0

\* the handler a request is routed to
Handle(storage, r) ==
    IF r.kind = "lock"
    THEN handle_lock_collateral(storage, whitelist, oracle, r.sender, r.collaterals)
    ELSE IF r.kind = "unlock"
    THEN handle_unlock_collateral(storage, whitelist, oracle, r.sender, r.collaterals)
    ELSE handle_borrow(storage, whitelist, oracle, r.sender, r.amount)

\* a storage holding the record of one borrower and of nobody else
OnlyOf(storage, human) ==
    [k \in DOMAIN storage \cap {Raw(human)} |-> storage[k]]

\* the lock, unlock and borrow requests of a sender that name at most one collateral
ShortRequests(sender) ==
    { [kind |-> k, sender |-> sender, collaterals |-> c, amount |-> 0] :
        k \in {"lock", "unlock"},
        c \in { l \in CollateralLists : Len(l) <= 1 } }
    \cup { [kind |-> "borrow", sender |-> sender, collaterals |-> <<>>, amount |-> n] :
            n \in Amounts }

\* two requests answered one after the other, from a storage
InOrder(storage, first, second) ==
    LET a == Handle(storage, first)
        b == Handle(a.loans, second)
    IN  [loans |-> b.loans,
         first |-> [result |-> a.result, messages |-> a.messages],
         second |-> [result |-> b.result, messages |-> b.messages]]

\* C10: borrower independence. A lock, unlock or borrow request leaves the
\* stored record of every borrower other than its sender as it was, and its
\* result, its messages and the sender's record after it are those the same
\* request gives on a storage holding the sender's record alone; and two
\* requests of two different borrowers, answered in either order from a
\* reachable storage, leave the same storage and get the same results and
\* messages.
C10_BorrowerIndependence ==
    /\ resp.kind \in {"lock", "unlock", "borrow"} =>
          /\ \A k \in (DOMAIN loans \cup DOMAIN resp.before) \ {Raw(resp.sender)} :
                /\ k \in DOMAIN loans /\ k \in DOMAIN resp.before
                /\ loans[k] = resp.before[k]
          /\ \E alone \in {Handle(OnlyOf(resp.before, resp.sender), resp)} :
                /\ resp.result = alone.result
                /\ resp.messages = alone.messages
                /\ LoanAfter = read_loan(alone.loans, Raw(resp.sender))
    /\ resp = Idle =>
          \A r1 \in ShortRequests("alice"), r2 \in ShortRequests("bob") :
              \E x \in {InOrder(loans, r1, r2)}, y \in {InOrder(loans, r2, r1)} :
                  /\ x.loans = y.loans
                  /\ x.first = y.second
                  /\ x.second = y.first

\* a request of one borrower has been accepted and has changed that
\* borrower's record while another borrower has collateral stored
C10_Witness ==
    /\ resp.kind \in {"lock", "unlock"} /\ resp.result = "Ok"
    /\ LoanAfter # LoanBefore
    /\ \E b \in Borrowers \ {resp.sender} :
          SumAmounts(read_loan(loans, Raw(b)).collaterals) > 0

----------------------------------------------------------------------------
(* The calculator on its own: compute_borrow_limit applied to a stored basket
   under a whitelist and an oracle that list and price both assets. *)

LimitAmounts == {0, 1, 3, 7, 100}
LimitLtvs == {Decimal(0), Decimal(5), Decimal(7), Decimal(10)}
LimitRates == {Decimal(15), Decimal(40), Decimal(100)}

\* the baskets a ledger can hold: at most one entry per asset
Baskets(amounts) ==
    { c \in UNION { [1..n -> Assets \X amounts] : n \in 0..Cardinality(Assets) } :
        \A i, j \in 1..Len(c) : c[i][1] = c[j][1] => i = j }

\* a storage where alice holds the basket and no debt, and the history that
\* goes with it
Holding(basket) ==
    Raw("alice") :> [collaterals |-> collaterals_raw(basket), borrow_amount |-> 0]

InstructedFor(basket) ==
    [k \in Borrowers \X Assets |->
        IF k[1] = "alice" THEN AmountFor(basket, k[2]) ELSE 0]

InitLimit ==
    /\ \E basket \in Baskets(LimitAmounts) :
        /\ loans = Holding(basket)
        /\ instructed = InstructedFor(basket)
    /\ \E ltvX \in LimitLtvs, ltvY \in LimitLtvs :
        whitelist = (Raw("X") :> [ltv |-> ltvX]) @@ (Raw("Y") :> [ltv |-> ltvY])
    /\ \E rateX \in LimitRates, rateY \in LimitRates :
        oracle = (<<"uusd", to_string(Raw("X"))>> :> PriceOf(rateX))
                 @@ (<<"uusd", to_string(Raw("Y"))>> :> PriceOf(rateY))
    /\ build \in Builds
    /\ resp = Idle
    /\ executed = [b \in Borrowers |-> 0]

\* compute_borrow_limit(deps, &loan.collaterals) on alice's stored basket
ComputeLimit ==
    /\ resp = Idle
    /\ resp' = [kind |-> "limit", sender |-> "alice", before |-> loans,
                limit |-> compute_borrow_limit(whitelist, oracle,
                              read_loan(loans, Raw("alice")).collaterals)]
    /\ UNCHANGED <<loans, whitelist, oracle, build, executed, instructed>>

NextLimit == ComputeLimit

SpecLimit == InitLimit /\ [][NextLimit]_vars

\* amount * ltv truncated, and that times the price truncated, in exact integers
TermOf(entry) ==
    (((entry[2] * whitelist[entry[1]].ltv) \div DECIMAL_FRACTIONAL)
        * oracle[<<"uusd", to_string(entry[1])>>].rate) \div DECIMAL_FRACTIONAL

RECURSIVE SumOfTerms(_)
SumOfTerms(collaterals) ==
    IF collaterals = <<>> THEN 0
    ELSE TermOf(Head(collaterals)) + SumOfTerms(Tail(collaterals))

\* C11: compute_borrow_limit returns the sum over the basket's entries of
\* amount * ltv * price, the amount multiplied by the ltv first and that
\* integer by the price second, each product truncated; the empty basket
\* gives 0, and 100 units at ltv 0.5 and price 10 give 500.
C11_LimitIsTruncatedSum ==
    resp.kind = "limit" =>
        LET basket == LoanBefore.collaterals
        IN  /\ resp.limit.ok
            /\ resp.limit.val = SumOfTerms(basket)
            /\ basket = <<>> => resp.limit.val = 0
            /\ ( /\ basket = << <<Raw("X"), 100>> >>
                 /\ whitelist[Raw("X")].ltv = Decimal(5)
                 /\ oracle[<<"uusd", to_string(Raw("X"))>>].rate = Decimal(100) )
               => resp.limit.val = 500

\* the limit of 100 X at ltv 0.5 and price 10 with 3 Y at ltv 0.5 and price
\* 1.5 has been computed: 500 and 1, where 3 * 0.5 * 1.5 is 2.25 and
\* 3 * 1.5 truncated times 0.5 is 2
C11_Witness ==
    /\ resp.kind = "limit"
    /\ LoanBefore.collaterals = << <<Raw("X"), 100>>, <<Raw("Y"), 3>> >>
    /\ whitelist[Raw("X")].ltv = Decimal(5)
    /\ whitelist[Raw("Y")].ltv = Decimal(5)
    /\ oracle[<<"uusd", to_string(Raw("X"))>>].rate = Decimal(100)
    /\ oracle[<<"uusd", to_string(Raw("Y"))>>].rate = Decimal(15)
    /\ resp.limit.val = 501

----------------------------------------------------------------------------
(* Runs where Y was never registered: the whitelist has no item for it and
   the oracle has no price for it. *)

InitUnlisted ==
    /\ loans = <<>>
    /\ whitelist = WlX
    /\ oracle = OrX
    /\ build \in Builds
    /\ resp = Idle
    /\ executed = [b \in Borrowers |-> 0]
    /\ instructed = [k \in Borrowers \X Assets |-> 0]

SpecUnlisted == InitUnlisted /\ [][Next]_vars

\* the basket a borrow or an unlock hands to compute_borrow_limit
BasketPassed ==
    IF resp.kind = "borrow" THEN LoanBefore.collaterals
    ELSE sub_collateral(LoanBefore.collaterals, collaterals_raw(resp.collaterals)).collaterals

LimitCalled ==
    \/ resp.kind = "borrow"
    \/ /\ resp.kind = "unlock"
       /\ sub_collateral(LoanBefore.collaterals, collaterals_raw(resp.collaterals)).ok

\* C12: whenever the basket handed to compute_borrow_limit by a borrow or an
\* unlock names an asset without a whitelist item, the request fails with
\* UnknownCollateral, stores nothing and emits no instruction.
C12_UnknownCollateral ==
    ( /\ LimitCalled
      /\ \E i \in 1..Len(BasketPassed) : BasketPassed[i][1] \notin DOMAIN whitelist )
    => /\ resp.result = "UnknownCollateral"
       /\ loans = resp.before
       /\ resp.messages = <<>>

----------------------------------------------------------------------------
(* Runs that start with a ledger at the top of the Uint128 range, or where
   the products of the calculator reach it; one request is answered. *)

TopAmounts ==
    {0, U128_MAX \div 20, (U128_MAX \div 20) + 2, U128_MAX - 1, U128_MAX}

InitOverflow ==
    /\ \E basket \in Baskets(TopAmounts) :
        /\ loans = Holding(basket)
        /\ instructed = InstructedFor(basket)
    /\ whitelist = WlX @@ WlY
    /\ oracle = OrX @@ OrY
    /\ build \in Builds
    /\ resp = Idle
    /\ executed = [b \in Borrowers |-> 0]

NextOverflow ==
    \/ LockCollateral
    \/ UnlockCollateral
    \/ Borrow
    \/ LiquidateCollateral

SpecOverflow == InitOverflow /\ [][NextOverflow]_vars

\* in exact integers: a product or the sum of the calculator is beyond the range
LimitLeavesRange(collaterals) ==
    \/ \E i \in 1..Len(collaterals) :
          LET ltv_part == collaterals[i][2] * whitelist[collaterals[i][1]].ltv
              rate_part == (ltv_part \div DECIMAL_FRACTIONAL)
                           * oracle[<<"uusd", to_string(collaterals[i][1])>>].rate
          IN  ltv_part > U128_MAX \/ rate_part > U128_MAX
    \/ SumOfTerms(collaterals) > U128_MAX

\* in exact integers: an addition or a product of the request being answered
\* is beyond the range
LeavesRange ==
    \/ /\ resp.kind = "lock"
       /\ \E a \in Assets :
            LockedOf(LoanBefore.collaterals, Raw(a)) + AmountFor(resp.collaterals, a)
                > U128_MAX
    \/ /\ resp.kind = "borrow"
       /\ \/ LoanBefore.borrow_amount + resp.amount > U128_MAX
          \/ LimitLeavesRange(LoanBefore.collaterals)
    \/ /\ resp.kind = "unlock"
       /\ LimitCalled
       /\ LimitLeavesRange(BasketPassed)

\* C13: overflow is a rejection. When adding the amount to the debt in a
\* borrow, adding a deposit to a locked amount in a lock, or accumulating
\* amount * ltv * price in the calculator goes beyond the Uint128 range, the
\* request fails with Overflow and nothing wrapped or saturated is stored.
C13_OverflowRejected ==
    (resp.kind \in {"lock", "unlock", "borrow"} /\ LeavesRange)
    => /\ resp.result = "Overflow"
       /\ loans = resp.before
       /\ resp.messages = <<>>

----------------------------------------------------------------------------
\* C14: liquidate_collateral is a no-op. Whoever calls it, for whichever
\* borrower, in whatever state, it succeeds with no instruction and an empty
\* log, and every loan record is as it was.
C14_LiquidateNoOp ==
    resp.kind = "liquidate" =>
        /\ resp.result = "Ok"
        /\ resp.messages = <<>>
        /\ resp.log = <<>>
        /\ loans = resp.before

\* a liquidation of somebody else, who has collateral locked, has been answered
C14_Witness ==
    /\ resp.kind = "liquidate"
    /\ resp.sender # resp.borrower
    /\ \E a \in Assets :
        LockedOf(read_loan(resp.before, Raw(resp.borrower)).collaterals, Raw(a)) > 0
    /\ resp.result = "Ok"

----------------------------------------------------------------------------
(* Runs whose oracle answers carry timestamps: every price of a run was last
   updated at the run's <<base, quote>> times. *)

Restamp(or, stamp) ==
    [k \in DOMAIN or |->
        [or[k] EXCEPT !.last_updated_base = stamp[1], !.last_updated_quote = stamp[2]]]

StampedFixtures ==
    { [oracle |-> Restamp(OrX @@ OrY, <<0, 0>>), build |-> "checked"],
      [oracle |-> Restamp(OrX @@ OrY, <<4, 9>>), build |-> "wrapping"],
      [oracle |-> Restamp(OrX, <<0, 0>>),        build |-> "wrapping"],
      [oracle |-> Restamp(OrX, <<4, 9>>),        build |-> "checked"] }

InitStamped ==
    /\ loans = <<>>
    /\ whitelist = WlX @@ WlY
    /\ \E f \in StampedFixtures : oracle = f.oracle /\ build = f.build
    /\ resp = Idle
    /\ executed = [b \in Borrowers |-> 0]
    /\ instructed = [k \in Borrowers \X Assets |-> 0]

SpecStamped == InitStamped /\ [][Next]_vars

\* the answer to a request from a storage, under an oracle
HandleUnder(or, storage, r) ==
    IF r.kind = "unlock"
    THEN handle_unlock_collateral(storage, whitelist, or, r.sender, r.collaterals)
    ELSE handle_borrow(storage, whitelist, or, r.sender, r.amount)

\* C15: stale prices are never rejected. A borrow or an unlock gets the
\* result, the instructions, the log and the stored state it gets in the run
\* that differs only in the oracle's last_updated_base and last_updated_quote
\* (here: the run where both are 0), so any two such runs agree.
C15_TimestampsIgnored ==
    resp.kind \in {"borrow", "unlock"} =>
        \E other \in {HandleUnder(Restamp(oracle, <<0, 0>>), resp.before, resp)} :
            /\ resp.result = other.result
            /\ resp.messages = other.messages
            /\ resp.log = other.log
            /\ loans = other.loans

\* an unlock that takes collateral out has been accepted on prices whose base
\* was updated before their quote
C15_Witness ==
    /\ resp.kind = "unlock"
    /\ resp.result = "Ok"
    /\ loans # resp.before
    /\ \A k \in DOMAIN oracle :
        oracle[k].last_updated_base < oracle[k].last_updated_quote

----------------------------------------------------------------------------
(* Runs where both assets are listed and priced, under either build. *)

InitListed ==
    /\ loans = <<>>
    /\ whitelist = WlX @@ WlY
    /\ oracle = OrX @@ OrY
    /\ build \in Builds
    /\ resp = Idle
    /\ executed = [b \in Borrowers |-> 0]
    /\ instructed = [k \in Borrowers \X Assets |-> 0]

SpecListed == InitListed /\ [][Next]_vars

----------------------------------------------------------------------------
\* the UnlockCollateral amounts among the messages, for one asset
RECURSIVE UnlockTotal(_, _)
UnlockTotal(messages, asset) ==
    IF messages = <<>> THEN 0
    ELSE (IF Head(messages).msg.type = "UnlockCollateral"
             /\ Head(messages).contract_addr = asset
          THEN Head(messages).msg.amount ELSE 0)
         + UnlockTotal(Tail(messages), asset)

\* C17: the ledger matches the instructions. For every borrower and asset
\* the stored locked amount is the sum of the LockCollateral amounts less the
\* sum of the UnlockCollateral amounts of the instructions emitted for them
\* (those dispatched and those of the response being taken); and the
\* UnlockCollateral instructions of a response never instruct the custody to
\* release more of an asset than the sender had locked before the request.
C17_LedgerMatchesInstructions ==
    /\ \A b \in Borrowers, a \in Assets :
          LockedOf(read_loan(loans, Raw(b)).collaterals, Raw(a))
          = instructed[<<b, a>>]
            + (IF resp = Idle THEN 0 ELSE NetInstructed(resp.messages, b, a))
    /\ resp.kind = "unlock" =>
          \A a \in Assets :
              UnlockTotal(resp.messages, a) <= LockedOf(LoanBefore.collaterals, Raw(a))

\* an unlock naming two elements has been accepted and leaves part of what
\* earlier LockCollateral instructions locked
C17_Witness ==
    /\ resp.kind = "unlock"
    /\ resp.result = "Ok"
    /\ Len(resp.messages) = 2
    /\ \E a \in Assets :
        /\ UnlockTotal(resp.messages, a) > 0
        /\ LockedOf(LoanAfter.collaterals, Raw(a)) > 0
        /\ instructed[<<resp.sender, a>>] = LockedOf(LoanBefore.collaterals, Raw(a))

----------------------------------------------------------------------------
\* C18: a borrower without debt can always withdraw. In every reachable
\* state where the sender's borrow_amount is 0, an unlock that takes of no
\* asset more than the sender has locked is accepted, whatever assets were
\* locked before.
C18_DebtFreeWithdraws ==
    ( /\ resp.kind = "unlock"
      /\ LoanBefore.borrow_amount = 0
      /\ \A a \in Assets :
            AmountFor(resp.collaterals, a) <= LockedOf(LoanBefore.collaterals, Raw(a)) )
    => resp.result = "Ok"

====
